---- MODULE Spec2Model ----
(***************************************************************************)
(* Model of contracts/bitcoin-spv-lib/src/main.rs: the CKB script that     *)
(* loads an SPV proof and a difficulty cell, runs verify() over them and   *)
(* turns the result into the script's exit code.                           *)
(*                                                                         *)
(* Digests are modelled as free terms (Hash256(x) is injective), a header  *)
(* carries the value its bits field decodes to (diff) and whether its      *)
(* digest meets its target (work_ok); byte buffers carry the number of     *)
(* bytes left over after their last whole record (extra).                  *)
(***************************************************************************)
EXTENDS Integers, Sequences, FiniteSets

\* ---------------------------------------------------------------- bounds
\* longest header chain whose headers vary in every field
MaxHeaders == 2
\* longest well-formed, validly linked header chain
MaxLinked == 6

\* ------------------------------------------------------------- constants
\* a confirmation factor that is one short
TX_PROOF_DIFFICULTY_FACTOR_SHORT == 6 - 1

\* line 33
TX_PROOF_DIFFICULTY_FACTOR == 6

None == "None"
Panic == "Panic"
Ok == "Ok"

\* enum Error, in declaration order; the first discriminant is 1 and each
\* following variant is one more than the one before it
ErrorVariants ==
    << "IndexOutOfBound", "ItemMissing", "LengthNotEnough", "Encoding",
       "WitnessInvalidEncoding", "WitnessMissInputType",
       "DifficultyDataInvalid", "InvalidVin", "InvalidVout", "WrongTxId",
       "SpvError", "NotAtCurrentOrPreviousDifficulty",
       "InsufficientDifficulty", "BadMerkleProof" >>

Errors == { ErrorVariants[i] : i \in 1..Len(ErrorVariants) }

\* `err as i8` with a collision: the cast of a broken discriminant table
ErrorCodeShifted(e) ==
    LET i == CHOOSE i \in 1..Len(ErrorVariants) : ErrorVariants[i] = e
    IN  IF i > 12 THEN i - 1 ELSE i

\* `err as i8`: the discriminant of the variant
ErrorCode(e) ==
    CHOOSE i \in 1..Len(ErrorVariants) : ErrorVariants[i] = e

\* entry(): Ok(_) => 0, Err(err) => err as i8
entry(r) == IF r = Ok THEN 0 ELSE ErrorCode(r)

\* SysError values the host can hand back
SysErrors == { "IndexOutOfBound", "ItemMissing", "LengthNotEnough", "Encoding", "Unknown" }

\* impl From<SysError> for Error; Unknown(_) panics
FromSysError(err) == IF err = "Unknown" THEN Panic ELSE err

\* SPVError values the library calls of verify() can return
SPVErrors == { "WrongLengthHeader", "InvalidChain", "InsufficientWork", "InvalidVin", "InvalidVout", "BadMerkleArray" }

\* impl From<SPVError> for Error
FromSPVError(err) == "SpvError"

\* ----------------------------------------------------------- the library
Hash256(x) == << "hash256", x >>

ZeroDigest == << "zero" >>

\* btcspv::validate_vin / validate_vout on the raw vector
validate_vin(vin) == vin = "valid"
validate_vout(vout) == vout = "valid"

\* Vin::new / Vout::new: the same structural check, as a Result
VinNew(vin) == IF validate_vin(vin) THEN Ok ELSE "InvalidVin"
VoutNew(vout) == IF validate_vout(vout) THEN Ok ELSE "InvalidVout"

\* validatespv::calculate_txid
calculate_txid(ver, vin, vout, lock) == Hash256(<< ver, vin, vout, lock >>)

\* HeaderArray::new: the buffer must be a whole number of 80-byte headers
HeaderArrayNew(raw) == IF raw.extra = 0 THEN Ok ELSE "WrongLengthHeader"

\* HeaderArray::len
HeaderArrayLen(raw) == Len(raw.hs)

\* HeaderArray::index, 0-based; slicing past the end of the buffer panics
HeaderArrayIndex(raw, i) ==
    IF i >= 0 /\ i < Len(raw.hs)
    THEN [panic |-> FALSE, header |-> raw.hs[i + 1]]
    ELSE [panic |-> TRUE, header |-> None]

\* MerkleArray::new: the buffer must be a whole number of 32-byte nodes
MerkleArrayNew(raw) == IF raw.extra = 0 THEN Ok ELSE "BadMerkleArray"

\* RawHeader::digest
HeaderDigest(h) == Hash256(h)

RECURSIVE ValidateFrom(_, _, _, _)
\* the loop of validatespv::validate_header_chain from header i (1-based)
ValidateFrom(hs, i, digest, total) ==
    IF i > Len(hs) THEN [err |-> None, total |-> total]
    ELSE IF i # 1 /\ hs[i].prev # digest THEN [err |-> "InvalidChain", total |-> 0]
    ELSE IF ~hs[i].work_ok THEN [err |-> "InsufficientWork", total |-> 0]
    ELSE ValidateFrom(hs, i + 1, HeaderDigest(hs[i]), total + hs[i].diff)

\* validatespv::validate_header_chain(&headers, false)
validate_header_chain(raw) == ValidateFrom(raw.hs, 1, ZeroDigest, 0)

\* one step of the Merkle fold: hash256 of the two digests side by side
hash256_merkle_step(a, b) == Hash256(<< a, b >>)

RECURSIVE MerkleFold(_, _, _, _)
\* verify_hash256_merkle: fold the nodes, the index bit picks the side
MerkleFold(current, nodes, i, idx) ==
    IF i > Len(nodes) THEN current
    ELSE MerkleFold(IF idx % 2 = 1 THEN hash256_merkle_step(nodes[i], current)
                                   ELSE hash256_merkle_step(current, nodes[i]),
                    nodes, i + 1, idx \div 2)

\* validatespv::prove
prove(txid, merkle_root, nodes, index) ==
    \/ txid = merkle_root /\ index = 0 /\ Len(nodes) = 0
    \/ MerkleFold(txid, nodes, 1, index) = merkle_root

\* ------------------------------------------------------------ the inputs
Version == "version"
Locktime == "locktime"

\* the id of the transaction made of the well-formed vin and vout
TxId == calculate_txid(Version, "valid", "valid", Locktime)

Sibling == Hash256(<< "sibling" >>)

\* the root over TxId and Sibling with the transaction as the left leaf
RootLeft == MerkleFold(TxId, << Sibling >>, 1, 0)

\* the root over TxId and Sibling with the transaction as the right leaf
RootRight == MerkleFold(TxId, << Sibling >>, 1, 1)

FreeDiffs == {1, 2}
LinkedDiffs == {0, 1, 2}
RefDiffs == {0, 1, 2}

PrevChoices(c) ==
    IF Len(c) = 0 THEN {ZeroDigest} ELSE {HeaderDigest(c[Len(c)]), ZeroDigest}

RECURSIVE FreeChains(_)
\* chains of exactly n headers, every field of every header free
FreeChains(n) ==
    IF n = 0 THEN { << >> }
    ELSE UNION { { Append(c, [prev |-> p, tx_root |-> r, diff |-> d, work_ok |-> w]) :
                     p \in PrevChoices(c), r \in {RootLeft, RootRight},
                     d \in FreeDiffs, w \in BOOLEAN } :
                 c \in FreeChains(n - 1) }

RECURSIVE LinkedChains(_)
\* chains of exactly n headers that link, meet their targets and commit to RootLeft
LinkedChains(n) ==
    IF n = 0 THEN { << >> }
    ELSE UNION { { Append(c, [prev |-> IF Len(c) = 0 THEN ZeroDigest ELSE HeaderDigest(c[Len(c)]),
                              tx_root |-> RootLeft, diff |-> d, work_ok |-> TRUE]) :
                     d \in LinkedDiffs } :
                 c \in LinkedChains(n - 1) }

FreeProofs ==
    [ version : {Version}, vin : {"valid", "malformed"}, vout : {"valid", "malformed"},
      locktime : {Locktime}, tx_id : {TxId, ZeroDigest}, index : {0, 1},
      headers : [ hs : UNION { FreeChains(n) : n \in 0..MaxHeaders }, extra : {0, 1} ],
      intermediate_nodes : [ nodes : {<< Sibling >>}, extra : {0, 1} ] ]

LinkedProofs ==
    [ version : {Version}, vin : {"valid"}, vout : {"valid"},
      locktime : {Locktime}, tx_id : {TxId}, index : {0, 1},
      headers : [ hs : UNION { LinkedChains(n) : n \in 0..MaxLinked }, extra : {0} ],
      intermediate_nodes : [ nodes : {<< Sibling >>}, extra : {0, 1} ] ]

\* the SPVProof values a witness can decode to
Proofs == FreeProofs \cup LinkedProofs

\* the Difficulty values the difficulty cell can decode to
Difficulties == [ current : RefDiffs, previous : RefDiffs ]

\* what load_witness_args(0, Source::Input) and the schema check can yield
WitnessLoads == SysErrors \cup { "NoInputType", "BadEncoding" }

\* what load_cell_data(1, Source::CellDep) and the schema check can yield
CellLoads == SysErrors \cup { "BadEncoding" }

\* ------------------------------------------------------------- the state
VARIABLES pc, proof, difficulty, tx_id, observed_diff, req_diff, stages, result, exit_code

vars == << pc, proof, difficulty, tx_id, observed_diff, req_diff, stages, result, exit_code >>

Init ==
    /\ pc = "parse_witness"
    /\ proof = None
    /\ difficulty = None
    /\ tx_id = None
    /\ observed_diff = None
    /\ req_diff = None
    /\ stages = << >>
    /\ result = None
    /\ exit_code = None

\* main() returns Err before verify() is called: its locals are dropped
MainFails(e) ==
    /\ pc' = IF e = Panic THEN "abort" ELSE "main_ret"
    /\ result' = e
    /\ proof' = None
    /\ difficulty' = None
    /\ UNCHANGED << tx_id, observed_diff, req_diff, stages, exit_code >>

\* verify() returns r, or panics
VerifyEnds(r) ==
    /\ pc' = IF r = Panic THEN "abort" ELSE "verify_ret"
    /\ result' = r

\* parse_witness(), called from main()
parse_witness ==
    /\ pc = "parse_witness"
    /\ \/ \E e \in WitnessLoads :
            MainFails(IF e = "NoInputType" THEN "WitnessMissInputType"
                      ELSE IF e = "BadEncoding" THEN "WitnessInvalidEncoding"
                      ELSE FromSysError(e))
       \/ \E p \in Proofs :
            /\ proof' = p
            /\ pc' = "parse_difficulty"
            /\ UNCHANGED << difficulty, tx_id, observed_diff, req_diff, stages, result, exit_code >>

\* parse_difficulty(), called from main()
parse_difficulty ==
    /\ pc = "parse_difficulty"
    /\ \/ \E e \in CellLoads :
            MainFails(IF e = "BadEncoding" THEN "DifficultyDataInvalid" ELSE FromSysError(e))
       \/ \E d \in Difficulties :
            /\ difficulty' = d
            /\ pc' = "verify_vin"
            /\ UNCHANGED << proof, tx_id, observed_diff, req_diff, stages, result, exit_code >>

\* ---------------------------------------------------------------- verify
\* lines 115-117
verify_vin ==
    /\ pc = "verify_vin"
    /\ stages' = Append(stages, "vin")
    /\ IF ~validate_vin(proof.vin)
       THEN VerifyEnds("InvalidVin")
       ELSE pc' = "verify_vout" /\ UNCHANGED result
    /\ UNCHANGED << proof, difficulty, tx_id, observed_diff, req_diff, exit_code >>

\* lines 118-120
verify_vout ==
    /\ pc = "verify_vout"
    /\ stages' = Append(stages, "vout")
    /\ IF ~validate_vout(proof.vout)
       THEN VerifyEnds("InvalidVout")
       ELSE pc' = "verify_txid" /\ UNCHANGED result
    /\ UNCHANGED << proof, difficulty, tx_id, observed_diff, req_diff, exit_code >>

\* lines 121-133
verify_txid ==
    /\ pc = "verify_txid"
    /\ stages' = Append(stages, "txid")
    /\ IF VinNew(proof.vin) # Ok
       THEN VerifyEnds(FromSPVError(VinNew(proof.vin))) /\ UNCHANGED tx_id
       ELSE IF VoutNew(proof.vout) # Ok
       THEN VerifyEnds(FromSPVError(VoutNew(proof.vout))) /\ UNCHANGED tx_id
       ELSE /\ tx_id' = calculate_txid(proof.version, proof.vin, proof.vout, proof.locktime)
            /\ IF tx_id' # proof.tx_id
               THEN VerifyEnds("WrongTxId")
               ELSE pc' = "verify_chain" /\ UNCHANGED result
    /\ UNCHANGED << proof, difficulty, observed_diff, req_diff, exit_code >>

\* lines 136-138
verify_chain ==
    /\ pc = "verify_chain"
    /\ stages' = Append(stages, "chain")
    /\ IF HeaderArrayNew(proof.headers) # Ok
       THEN VerifyEnds(FromSPVError(HeaderArrayNew(proof.headers))) /\ UNCHANGED observed_diff
       ELSE LET r == validate_header_chain(proof.headers)
            IN  IF r.err # None
                THEN VerifyEnds(FromSPVError(r.err)) /\ UNCHANGED observed_diff
                ELSE /\ observed_diff' = r.total
                     /\ pc' = "verify_epoch"
                     /\ UNCHANGED result
    /\ UNCHANGED << proof, difficulty, tx_id, req_diff, exit_code >>

\* an epoch match that knows the current epoch only
epoch_match_current_only(first_header_diff, current_diff, previous_diff) ==
    IF first_header_diff = current_diff THEN [err |-> None, req |-> current_diff]
    ELSE [err |-> "NotAtCurrentOrPreviousDifficulty", req |-> None]

\* lines 143-149: the required difficulty, or the failure
epoch_match(first_header_diff, current_diff, previous_diff) ==
    IF first_header_diff = current_diff THEN [err |-> None, req |-> current_diff]
    ELSE IF first_header_diff = previous_diff THEN [err |-> None, req |-> previous_diff]
    ELSE [err |-> "NotAtCurrentOrPreviousDifficulty", req |-> None]

\* lines 139-149
verify_epoch ==
    /\ pc = "verify_epoch"
    /\ stages' = Append(stages, "epoch")
    /\ LET first_header == HeaderArrayIndex(proof.headers, 0)
       IN  IF first_header.panic
           THEN VerifyEnds(Panic) /\ UNCHANGED req_diff
           ELSE LET m == epoch_match(first_header.header.diff, difficulty.current, difficulty.previous)
                IN  IF m.err # None
                    THEN VerifyEnds(m.err) /\ UNCHANGED req_diff
                    ELSE /\ req_diff' = m.req
                         /\ pc' = "verify_work"
                         /\ UNCHANGED result
    /\ UNCHANGED << proof, difficulty, tx_id, observed_diff, exit_code >>

\* a work check that wants strictly more than the required multiple
insufficient_strict(observed, req) == observed <= req * TX_PROOF_DIFFICULTY_FACTOR

\* a work check that asks for the required difficulty once
insufficient_single(observed, req) == observed < req

\* line 151: observed_diff < req_diff * TX_PROOF_DIFFICULTY_FACTOR
insufficient(observed, req) == observed < req * TX_PROOF_DIFFICULTY_FACTOR

\* lines 151-153
verify_work ==
    /\ pc = "verify_work"
    /\ stages' = Append(stages, "work")
    /\ IF insufficient(observed_diff, req_diff)
       THEN VerifyEnds("InsufficientDifficulty")
       ELSE pc' = "verify_merkle" /\ UNCHANGED result
    /\ UNCHANGED << proof, difficulty, tx_id, observed_diff, req_diff, exit_code >>

\* lines 155-168
verify_merkle ==
    /\ pc = "verify_merkle"
    /\ stages' = Append(stages, "merkle")
    /\ LET header == HeaderArrayIndex(proof.headers, HeaderArrayLen(proof.headers))
       IN  IF header.panic
           THEN VerifyEnds(Panic)
           ELSE IF MerkleArrayNew(proof.intermediate_nodes) # Ok
           THEN VerifyEnds(FromSPVError(MerkleArrayNew(proof.intermediate_nodes)))
           ELSE IF ~prove(tx_id, header.header.tx_root, proof.intermediate_nodes.nodes, proof.index)
           THEN VerifyEnds("BadMerkleProof")
           ELSE VerifyEnds(Ok)
    /\ UNCHANGED << proof, difficulty, tx_id, observed_diff, req_diff, exit_code >>

\* main(), lines 174-176: hands verify's result on and drops its locals
main_return ==
    /\ pc = "verify_ret"
    /\ pc' = "main_ret"
    /\ proof' = None
    /\ difficulty' = None
    /\ tx_id' = None
    /\ observed_diff' = None
    /\ req_diff' = None
    /\ UNCHANGED << stages, result, exit_code >>

\* entry(), lines 41-47
entry_return ==
    /\ pc = "main_ret"
    /\ exit_code' = entry(result)
    /\ pc' = "exit"
    /\ UNCHANGED << proof, difficulty, tx_id, observed_diff, req_diff, stages, result >>

Next ==
    \/ parse_witness
    \/ parse_difficulty
    \/ verify_vin
    \/ verify_vout
    \/ verify_txid
    \/ verify_chain
    \/ verify_epoch
    \/ verify_work
    \/ verify_merkle
    \/ main_return
    \/ entry_return

Spec == Init /\ [][Next]_vars

\* ------------------------------------------------------------ properties
Evaluated(s) == \E i \in 1..Len(stages) : stages[i] = s

\* verify() panicked
VerifyAborted == pc = "abort" /\ Len(stages) > 0

\* verify() returned or panicked, and its arguments are still alive
VerifyEnded == pc = "verify_ret" \/ VerifyAborted

\* verify() has been called and main() has not returned
Verifying ==
    \/ pc \in { "verify_vin", "verify_vout", "verify_txid", "verify_chain",
                "verify_epoch", "verify_work", "verify_merkle" }
    \/ VerifyEnded

RECURSIVE SumDiffs(_)
SumDiffs(hs) == IF Len(hs) = 0 THEN 0 ELSE hs[1].diff + SumDiffs(Tail(hs))

Linked(hs) ==
    /\ \A i \in 1..Len(hs) : hs[i].work_ok
    /\ \A i \in 2..Len(hs) : hs[i].prev = HeaderDigest(hs[i - 1])

Uniform(hs) == \A i \in 1..Len(hs) : hs[i].diff = hs[1].diff

NumHeaders == Len(proof.headers.hs)

FirstDiff == proof.headers.hs[1].diff

\* the stages of the claims, each as a condition on the arguments of verify()
VinHolds == proof.vin = "valid"
VoutHolds == proof.vout = "valid"
TxIdHolds == proof.tx_id = calculate_txid(proof.version, proof.vin, proof.vout, proof.locktime)
ChainHolds == proof.headers.extra = 0 /\ NumHeaders >= 1 /\ Linked(proof.headers.hs)
EpochHolds == FirstDiff = difficulty.current \/ FirstDiff = difficulty.previous
WorkHolds == SumDiffs(proof.headers.hs) >= 6 * FirstDiff
MerkleHolds ==
    /\ proof.intermediate_nodes.extra = 0
    /\ MerkleFold(proof.tx_id, proof.intermediate_nodes.nodes, 1, proof.index)
         = proof.headers.hs[NumHeaders].tx_root

EarlierStagesHold == VinHolds /\ VoutHolds /\ TxIdHolds /\ ChainHolds

\* the failure kinds the first failing stage may report, or {} when none fails
FirstFailure ==
    IF ~VinHolds THEN {"InvalidVin"}
    ELSE IF ~VoutHolds THEN {"InvalidVout"}
    ELSE IF ~TxIdHolds THEN {"WrongTxId"}
    ELSE IF ~ChainHolds THEN {"SpvError"}
    ELSE IF ~EpochHolds THEN {"NotAtCurrentOrPreviousDifficulty"}
    ELSE IF ~WorkHolds THEN {"InsufficientDifficulty"}
    ELSE IF ~MerkleHolds THEN {"BadMerkleProof", "SpvError"}
    ELSE {}

\* C1: whenever verify() has ended on arguments with at least one header on
\* which some stage fails, its outcome is the failure kind of the first
\* failing stage in the order vin, vout, tx id, header chain, epoch, work,
\* Merkle.
C1_FirstFailureReturned ==
    (VerifyEnded /\ NumHeaders >= 1 /\ FirstFailure # {}) => result \in FirstFailure

\* C2: when verify() has ended, its outcome is success exactly when every
\* stage holds of its arguments.
C2_SuccessIffAllStagesHold ==
    VerifyEnded =>
        (result = Ok <=> (EarlierStagesHold /\ EpochHolds /\ WorkHolds /\ MerkleHolds))

\* C3: no execution of verify() ends in a panic.
C3_VerifyNeverPanics == ~VerifyAborted

\* C4: when the first six stages hold of a chain of N >= 1 headers and verify()
\* has ended, the outcome is success if the Merkle proof reconstructs the root
\* of the last header (position N-1) and BadMerkleProof otherwise.
C4_MerkleAgainstLastHeader ==
    (VerifyEnded /\ EarlierStagesHold /\ EpochHolds /\ WorkHolds
        /\ proof.intermediate_nodes.extra = 0)
    => result = (IF MerkleHolds THEN Ok ELSE "BadMerkleProof")

\* C5: with current # previous, once the epoch match has been evaluated on a
\* chain of at least one header, a first-header difficulty equal to current or
\* to previous has passed it (that value is the required difficulty and the
\* work check comes next), and any other value has ended verify() with
\* NotAtCurrentOrPreviousDifficulty.
C5_EpochMatch ==
    (Verifying /\ Evaluated("epoch") /\ NumHeaders >= 1
        /\ difficulty.current # difficulty.previous)
    => IF FirstDiff \in {difficulty.current, difficulty.previous}
       THEN /\ result # "NotAtCurrentOrPreviousDifficulty"
            /\ pc = "verify_work" \/ Evaluated("work")
            /\ req_diff = FirstDiff
       ELSE /\ pc = "verify_ret"
            /\ result = "NotAtCurrentOrPreviousDifficulty"
            /\ ~Evaluated("work")

\* the epoch match has passed on the previous difficulty
C5_Witness ==
    /\ pc = "verify_work"
    /\ difficulty.current # difficulty.previous
    /\ FirstDiff = difficulty.previous
    /\ req_diff = difficulty.previous

\* C6: once the work check has been evaluated, the required difficulty R is the
\* reference value the first header matched; chain work equal to R x 6 has
\* passed the check and chain work equal to R x 6 - 1 has ended verify() with
\* InsufficientDifficulty.
C6_WorkBoundary ==
    (Verifying /\ Evaluated("work"))
    => /\ req_diff = FirstDiff
       /\ req_diff \in {difficulty.current, difficulty.previous}
       /\ SumDiffs(proof.headers.hs) = req_diff * 6
            => /\ pc = "verify_merkle" \/ Evaluated("merkle")
               /\ result # "InsufficientDifficulty"
       /\ SumDiffs(proof.headers.hs) = req_diff * 6 - 1
            => /\ pc = "verify_ret"
               /\ result = "InsufficientDifficulty"
               /\ ~Evaluated("merkle")

\* chain work exactly six times a positive required difficulty has passed
C6_Witness ==
    /\ pc = "verify_merkle"
    /\ req_diff > 0
    /\ SumDiffs(proof.headers.hs) = req_diff * 6

\* the failure kinds of the taxonomy, as variants of Error
TaxonomyErrors ==
    { "WitnessInvalidEncoding", "DifficultyDataInvalid", "InvalidVin", "InvalidVout",
      "WrongTxId", "SpvError", "NotAtCurrentOrPreviousDifficulty",
      "InsufficientDifficulty", "BadMerkleProof" }

C8_EmptyChainRejected ==
    (Verifying /\ VinHolds /\ VoutHolds /\ TxIdHolds
        /\ proof.headers.extra = 0 /\ NumHeaders = 0)
    => /\ ~Evaluated("epoch")
       /\ pc # "abort"
       /\ pc = "verify_ret" => result \in Errors

\* the condition of C9 on the arguments of verify()
C9_Scenario ==
    /\ VinHolds /\ VoutHolds /\ TxIdHolds
    /\ proof.headers.extra = 0 /\ NumHeaders = 1 /\ Linked(proof.headers.hs)
    /\ FirstDiff = difficulty.current
    /\ SumDiffs(proof.headers.hs) < 6 * difficulty.current

\* C9: on a one-header chain at the current difficulty with work below six
\* times current, verify() never evaluates the Merkle stage, never panics, and
\* ends with InsufficientDifficulty.
C9_ShortCircuit ==
    (Verifying /\ C9_Scenario)
    => /\ pc # "verify_merkle"
       /\ ~Evaluated("merkle")
       /\ pc # "abort"
       /\ pc = "verify_ret" => result = "InsufficientDifficulty"

\* the scenario has ended, with a Merkle path that is malformed and misplaced
C9_Witness ==
    /\ pc = "verify_ret"
    /\ C9_Scenario
    /\ proof.intermediate_nodes.extra = 1
    /\ proof.index = 1
    /\ result = "InsufficientDifficulty"

\* C10: once the work check has been evaluated, it has passed exactly when the
\* chain work is at least six times the first header's difficulty; for a chain
\* whose headers all have the same difficulty d > 0 that is exactly when the
\* chain has at least six headers.
C10_SixConfirmations ==
    (Verifying /\ Evaluated("work"))
    => LET passed == (pc = "verify_merkle" \/ Evaluated("merkle"))
                        /\ result # "InsufficientDifficulty"
       IN  /\ passed <=> SumDiffs(proof.headers.hs) >= 6 * FirstDiff
           /\ (Uniform(proof.headers.hs) /\ FirstDiff > 0) => (passed <=> NumHeaders >= 6)

\* fewer than six headers have passed the work check of a positive difficulty
C10_Witness ==
    /\ pc = "verify_merkle"
    /\ FirstDiff > 0
    /\ NumHeaders < 6

====
